---- MODULE Spec2Model ----
(***************************************************************************)
(* Estring (src/estrings.hpp): an intrusive string header (hash, length,   *)
(* disposal flag, inline chars), the non-owning handle EstrPtr and the     *)
(* move-only owning handle EstrUniquePtr.                                  *)
(*                                                                         *)
(* A char is modelled as the signed 8-bit value it has on the usual        *)
(* targets (-128..127); casts to uint8_t and the uint32_t arithmetic of    *)
(* the hash keep their width.  Headers live in `heap`, a sequence indexed  *)
(* by address (1..Len(heap)); address 0 is nullptr.  A header that was     *)
(* delete[]d keeps its slot with st = "freed": its memory is gone, and     *)
(* every read through a pointer to it is undefined behaviour, modelled as  *)
(* a choice over the outcomes a build can produce.                         *)
(***************************************************************************)
EXTENDS Integers, Sequences, FiniteSets, TLC

\* ------------------------------------------------------------------ bounds
MaxLen      == 3   \* longest input string of SpecStr
MaxHeaders  == 2   \* headers ever constructed in one run of Spec
MaxHandles  == 2   \* EstrUniquePtr objects ever constructed in one run
MaxRun      == 5   \* longest run of one char among the inputs of SpecStr (its hash wraps)

\* Char values the inputs are drawn from: NUL and a char above 127 (signed: -56,
\* as uint8_t: 200).
Char == {0, -56}

StringsUpTo(n) == UNION {[1..k -> Char] : k \in 0..n}

\* The inputs of SpecStr: every string up to MaxLen, and runs of the char 200, long
\* enough for the 32-bit accumulator of the hash to wrap.
StrInputs == StringsUpTo(MaxLen) \cup {[i \in 1..k |-> -56] : k \in 0..MaxRun}

\* The inputs of Spec: the empty string, and one with a char above 127, an
\* embedded NUL and a char after it.
OwnedInputs == {<<>>, <<-56, 0, -56>>}

\* --------------------------------------------------------- program constants
q             == 127         \* ascii_string_hash: uint32_t q = 127
MaxLength     == 2147483647  \* the largest value of the bit-field length : 31
SizeofRaw     == 12          \* sizeof(EstrRawData<'\0'>): two uint32_t words + chars[1], padded
OffsetofChars == 8           \* offsetof(EstrRawData<'\0'>, chars)

Max(a, b) == IF a >= b THEN a ELSE b

\* (uint8_t) of a char
U8(c) == c % 256

\* uint32_t: a value v is the pair <<v \div 2^16, v % 2^16>> of 16-bit limbs; every
\* intermediate of the arithmetic below stays under 2^31, and the results wrap at
\* 2^32 as the machine's do.
Limb == 256 * 256

U32(n) == <<(n \div Limb) % Limb, n % Limb>>

\* a + b on uint32_t
u32_add(a, b) ==
    LET lo == a[2] + b[2]
        hi == a[1] + b[1] + (lo \div Limb)
    IN  <<hi % Limb, lo % Limb>>

\* a * k on uint32_t, for 0 <= k < 2^15
u32_mul(a, k) ==
    LET lo == a[2] * k
        hi == a[1] * k + (lo \div Limb)
    IN  <<hi % Limb, lo % Limb>>

\* The conversion uint32_t -> size_t (64 bits, four 16-bit limbs): zero extension.
to_size_t(v) == <<0, 0>> \o v

\* Assignment of n to the 31-bit field length: n modulo 2^31.
Trunc31(n) == IF n <= MaxLength THEN n ELSE n - MaxLength - 1

\* ------------------------------------------------------------- string hash
\* The loop of ascii_string_hash: `string` is position i of str; it stops at the
\* first NUL char.
RECURSIVE hash_loop(_, _, _, _)
hash_loop(str, i, hash, temp) ==
    IF str[i] = 0
    THEN hash
    ELSE hash_loop(str, i + 1, u32_add(hash, u32_mul(temp, U8(str[i]))), u32_mul(temp, q))

ascii_string_hash(str) == hash_loop(str, 1, U32(0), U32(1))

\* --------------------------------------------------------------- headers
\* EstrRawData<Chars...>(): the consteval constructor of the static path.  Chars
\* ends with NUL.
EstrRawData(Chars) ==
    [needs_disposing |-> FALSE,
     length          |-> Trunc31(Len(Chars) - 1),
     hash            |-> ascii_string_hash(Chars),
     chars           |-> Chars]

\* EstrRawData<'\0'>(int): the constructor estr_new places in the fresh buffer; it
\* sets the default member initialisers and leaves hash unset (<<>> here; estr_new
\* writes it before anything reads it).
EstrRawDataInt ==
    [needs_disposing |-> FALSE, length |-> 0, hash |-> <<>>, chars |-> <<0>>]

\* The header estr_new builds for the string_view `string`, and the size of the
\* buffer it asks new char[] for.
estr_new_size(string) == Max(SizeofRaw, OffsetofChars + Len(string) + 1)

\* estr_new taking the string up to its first NUL (a strlen-based copy).
estr_new_cstr(string) ==
    LET n == IF \E i \in 1..Len(string) : string[i] = 0
             THEN (CHOOSE i \in 1..Len(string) :
                      string[i] = 0 /\ \A j \in 1..(i - 1) : string[j] # 0) - 1
             ELSE Len(string)
        c == SubSeq(string, 1, n) \o <<0>>
    IN  [needs_disposing |-> TRUE, length |-> n, hash |-> ascii_string_hash(c), chars |-> c]

estr_new(string) ==
    LET p0 == EstrRawDataInt
        p1 == [p0 EXCEPT !.needs_disposing = TRUE]
        p2 == [p1 EXCEPT !.length = Trunc31(Len(string))]
        p3 == [p2 EXCEPT !.chars = string \o <<0>>]       \* memcpy, then the '\0'
        p4 == [p3 EXCEPT !.hash = ascii_string_hash(p3.chars)]
    IN  p4

\* ----------------------------------------------------------------- state
VARIABLES
    heap,        \* Seq of [needs_disposing, length, hash, chars, st, frees, cap, src]
    handles,     \* Seq of EstrUniquePtr objects [raw, st, moved]
    views,       \* the _raw_data of the EstrPtr values the program holds
    fault,       \* the process died (a fault raised by undefined behaviour)
    hashCalls,   \* calls of ascii_string_hash so far
    misuse,      \* claims made against the caller's contract: {"double", "dangling"}
    lastOp       \* the operation that produced this state, and what it did

vars == <<heap, handles, views, fault, hashCalls, misuse, lastOp>>

Addrs == 1..Len(heap)

\* A pointer to memory that may be read: static storage or a live allocation.
Readable(p) == p \in Addrs /\ heap[p].st # "freed"

LiveOwners(p) == {x \in 1..Len(handles) : handles[x].st = "live" /\ handles[x].raw = p}

\* EstrPtr accessors, through a readable pointer.
size(p)            == heap[p].length
data(p)            == heap[p].chars
needs_disposing(p) == heap[p].needs_disposing
hash(p)            == heap[p].hash
view(p)            == SubSeq(data(p), 1, size(p))

\* A hash of the pointer instead of the content.
std_hash_addr(p) == to_size_t(U32(p))

\* std::hash<EstrPtr>: the cached hash, converted to size_t.
std_hash(p) == to_size_t(hash(p))

\* A comparison that stops at the first NUL, as strncmp does.
strncmp(a, b, n) ==
    LET stop == {i \in 1..n : a[i] = 0 \/ b[i] = 0}
        m    == IF stop = {} THEN n ELSE CHOOSE i \in stop : \A j \in stop : i <= j
    IN  IF \A i \in 1..m : a[i] = b[i] THEN 0
        ELSE LET k == CHOOSE i \in 1..m : a[i] # b[i] /\ \A j \in 1..(i - 1) : a[j] = b[j]
             IN  IF U8(a[k]) < U8(b[k]) THEN -1 ELSE 1

\* memcmp(a, b, n) on char sequences: 0 when the first n bytes agree, else the
\* sign of the first difference, bytes compared as unsigned char.
memcmp(a, b, n) ==
    IF \A i \in 1..n : a[i] = b[i]
    THEN 0
    ELSE LET k == CHOOSE i \in 1..n : a[i] # b[i] /\ \A j \in 1..(i - 1) : a[j] = b[j]
         IN  IF U8(a[k]) < U8(b[k]) THEN -1 ELSE 1

\* operator== comparing the bytes before the cached hashes.
OpEq_bytes_first(a, b) ==
    IF heap[a].length # heap[b].length
    THEN [res |-> FALSE, trace |-> <<"size">>]
    ELSE IF memcmp(heap[a].chars, heap[b].chars, heap[a].length) # 0
    THEN [res |-> FALSE, trace |-> <<"size", "memcmp">>]
    ELSE [res |-> heap[a].hash = heap[b].hash, trace |-> <<"size", "memcmp", "hash">>]

\* operator==(a, b) on readable pointers: the result and the stages it ran.
OpEq(a, b) ==
    IF size(a) # size(b)
    THEN [res |-> FALSE, trace |-> <<"size">>]
    ELSE IF hash(a) # hash(b)
    THEN [res |-> FALSE, trace |-> <<"size", "hash">>]
    ELSE [res |-> memcmp(data(a), data(b), size(a)) = 0,
          trace |-> <<"size", "hash", "memcmp">>]

\* operator!=
OpNe(a, b) == ~OpEq(a, b).res

NoOp == [op |-> "init", x |-> 0, y |-> 0, p |-> 0, r |-> 0, res |-> FALSE, ne |-> FALSE,
         trace |-> <<>>, val |-> <<>>, arg |-> <<>>, nullDeref |-> FALSE]


\* ------------------------------------------------------------ allocation
\* A header placed in memory: st is "static" (program data), "live" (a new char[]
\* buffer of cap bytes) or "freed"; frees counts the delete[]s applied to it and
\* src remembers the string the header was built from.
Cell(hdr, st, cap, src) ==
    [needs_disposing |-> hdr.needs_disposing, length |-> hdr.length,
     hash |-> hdr.hash, chars |-> hdr.chars, st |-> st, frees |-> 0, cap |-> cap,
     src |-> src]

\* delete[] (char*) p; delete[] of nullptr does nothing.
delete(hp, p) ==
    IF p = 0 THEN hp ELSE [hp EXCEPT ![p].st = "freed", ![p].frees = @ + 1]

Outcome(hp, f, nd) == [heap |-> hp, fault |-> f, nullDeref |-> nd]

\* destroy() deleting whatever it points to, the flag ignored.
destroy_unconditional(p) ==
    IF p = 0
    THEN {Outcome(heap, TRUE, TRUE), Outcome(heap, FALSE, TRUE)}
    ELSE {Outcome(delete(heap, p), FALSE, FALSE)}

\* EstrPtr::destroy() through the pointer p: the set of its outcomes.
\*  - p null: needs_disposing() reads _raw_data->needs_disposing through nullptr,
\*    undefined behaviour: the process faults, or the read yields some bit and the
\*    delete[] (of nullptr, if taken) does nothing.
\*  - p freed: the flag is read from freed memory, undefined behaviour: a fault,
\*    a stale 1 (the buffer is deleted a second time) or a 0.
\*  - otherwise the buffer is deleted exactly when needs_disposing is set.
destroy(p) ==
    IF p = 0
    THEN {Outcome(heap, TRUE, TRUE), Outcome(heap, FALSE, TRUE)}
    ELSE IF ~Readable(p)
    THEN {Outcome(heap, TRUE, FALSE), Outcome(heap, FALSE, FALSE),
          Outcome(delete(heap, p), FALSE, FALSE)}
    ELSE IF needs_disposing(p)
    THEN {Outcome(delete(heap, p), FALSE, FALSE)}
    ELSE {Outcome(heap, FALSE, FALSE)}

\* EstrPtr::_create_from_raw_data: an EstrPtr is its _raw_data.
create_from_raw_data(raw_data) == raw_data

\* EstrUniquePtr::get()
get(x) == create_from_raw_data(handles[x].raw)

\* EstrUniquePtr::claim(ptr): the handle returned.  The alloca'd temporary it is
\* moved out of is raw memory: no destructor ever runs on it.
claim(ptr) == [raw |-> ptr, st |-> "live", moved |-> FALSE]

\* A move constructor that clears the source before it copies the pointer.
move_ctor_swapped(old_ptr) ==
    [new |-> [raw |-> 0, st |-> "live", moved |-> FALSE],
     old |-> [old_ptr EXCEPT !.raw = 0, !.moved = TRUE]]

\* A move constructor that copies the pointer and leaves the source as it was.
move_ctor_keep(old_ptr) ==
    [new |-> [raw |-> old_ptr.raw, st |-> "live", moved |-> FALSE],
     old |-> [old_ptr EXCEPT !.moved = TRUE]]

\* EstrUniquePtr(EstrUniquePtr&& old_ptr): the new handle and the old one after it.
move_ctor(old_ptr) ==
    [new |-> [raw |-> old_ptr.raw, st |-> "live", moved |-> FALSE],
     old |-> [old_ptr EXCEPT !.raw = 0, !.moved = TRUE]]

\* --------------------------------------------------------------- actions
\* "literal"_estr / ESTR(literal): a view of EstrUniqueStorage<chars..., '\0'>::data.
\* The storage is one static object per distinct char pack.
EstrLiteral(s, maxHeaders) ==
    LET raw   == EstrRawData(s \o <<0>>)
        known == {p \in Addrs : heap[p].st = "static" /\ heap[p].chars = raw.chars}
        p     == IF known = {} THEN Len(heap) + 1 ELSE CHOOSE k \in known : TRUE
    IN  /\ ~fault
        /\ known = {} => Len(heap) < maxHeaders
        /\ heap' = IF known = {}
                   THEN Append(heap, Cell(raw, "static", OffsetofChars + Len(raw.chars), s))
                   ELSE heap
        /\ hashCalls' = IF known = {} THEN hashCalls + 1 ELSE hashCalls
        /\ views' = views \cup {create_from_raw_data(p)}
        /\ lastOp' = [NoOp EXCEPT !.op = "literal", !.p = p, !.arg = s]
        /\ UNCHANGED <<handles, fault, misuse>>

\* estr_new(string)
EstrNew(s, maxHeaders) ==
    LET p == Len(heap) + 1
    IN  /\ ~fault
        /\ Len(heap) < maxHeaders
        /\ heap' = Append(heap, Cell(estr_new(s), "live", estr_new_size(s), s))
        /\ hashCalls' = hashCalls + 1
        /\ views' = views \cup {create_from_raw_data(p)}
        /\ lastOp' = [NoOp EXCEPT !.op = "estr_new", !.p = p, !.arg = s]
        /\ UNCHANGED <<handles, fault, misuse>>

\* estr_unique_new(string): estr_new, then claim of the view it returned.  The
\* heap and the handles after it; the new header is at Len(heap) + 1.
estr_unique_new(string) ==
    LET estr == create_from_raw_data(Len(heap) + 1)
    IN  [heap    |-> Append(heap, Cell(estr_new(string), "live", estr_new_size(string), string)),
         handles |-> Append(handles, claim(estr))]

MakeOwned(s) ==
    LET o == estr_unique_new(s)
    IN  /\ ~fault
        /\ Len(heap) < MaxHeaders
        /\ Len(handles) < MaxHandles
        /\ heap' = o.heap
        /\ handles' = o.handles
        /\ hashCalls' = hashCalls + (Len(o.heap) - Len(heap))
        /\ lastOp' = [NoOp EXCEPT !.op = "estr_unique_new", !.p = Len(heap) + 1, !.arg = s,
                                  !.y = Len(handles) + 1]
        /\ UNCHANGED <<views, fault, misuse>>

\* EstrUniquePtr::claim(v) called by the program on a view it holds.  Nothing in
\* the code checks the caller's contract; misuse records a claim of a header that
\* has a live owner ("double") or that was already deallocated ("dangling").
Claim(v) ==
    /\ ~fault
    /\ v \in views
    /\ Len(handles) < MaxHandles
    /\ handles' = Append(handles, claim(v))
    /\ misuse' = misuse
                 \cup (IF LiveOwners(v) # {} /\ v # 0 THEN {"double"} ELSE {})
                 \cup (IF v \in Addrs /\ ~Readable(v) THEN {"dangling"} ELSE {})
    /\ lastOp' = [NoOp EXCEPT !.op = "claim", !.p = v, !.y = Len(handles) + 1]
    /\ UNCHANGED <<heap, views, fault, hashCalls>>

\* EstrUniquePtr::get() on a live handle: the program now holds that view.
Get(x) ==
    /\ ~fault
    /\ x \in 1..Len(handles) /\ handles[x].st = "live"
    /\ views' = views \cup {get(x)}
    /\ lastOp' = [NoOp EXCEPT !.op = "get", !.x = x, !.p = get(x)]
    /\ UNCHANGED <<heap, handles, fault, hashCalls, misuse>>

\* Move construction of a new handle from the live handle x.
Move(x) ==
    LET m == move_ctor(handles[x])
    IN  /\ ~fault
        /\ x \in 1..Len(handles) /\ handles[x].st = "live"
        /\ Len(handles) < MaxHandles
        /\ handles' = Append([handles EXCEPT ![x] = m.old], m.new)
        /\ lastOp' = [NoOp EXCEPT !.op = "move", !.x = x, !.y = Len(handles) + 1,
                                  !.p = handles[x].raw]
        /\ UNCHANGED <<heap, views, fault, hashCalls, misuse>>

\* ~EstrUniquePtr() of the live handle x: get().destroy().
Destroy(x) ==
    /\ ~fault
    /\ x \in 1..Len(handles) /\ handles[x].st = "live"
    /\ \E o \in destroy(get(x)) :
          /\ fault' = o.fault
          /\ heap' = o.heap
          /\ handles' = IF o.fault THEN handles ELSE [handles EXCEPT ![x].st = "dead"]
          /\ lastOp' = [NoOp EXCEPT !.op = "destroy", !.x = x, !.p = get(x),
                                    !.nullDeref = o.nullDeref]
    /\ UNCHANGED <<views, hashCalls, misuse>>


\* clone() handing out a second handle to the same header.
clone_shallow(x) == [heap |-> heap, handles |-> Append(handles, claim(get(x)))]

\* EstrUniquePtr::clone() of the handle x: estr_unique_new(view()).
clone(x) == estr_unique_new(view(get(x)))

\* The outcomes of clone() on the live handle x.  view() reads length and chars
\* through _raw_data; through nullptr or a freed header that is undefined
\* behaviour: a fault, or a copy of whatever bytes the read yields.
clone_outcomes(x) ==
    IF Readable(get(x))
    THEN {[fault |-> FALSE, heap |-> clone(x).heap, handles |-> clone(x).handles]}
    ELSE {[fault |-> TRUE, heap |-> heap, handles |-> handles]}
         \cup {[fault |-> FALSE, heap |-> estr_unique_new(s).heap,
                handles |-> estr_unique_new(s).handles] : s \in OwnedInputs}

Clone(x) ==
    /\ ~fault
    /\ x \in 1..Len(handles) /\ handles[x].st = "live"
    /\ Len(heap) < MaxHeaders
    /\ Len(handles) < MaxHandles
    /\ \E o \in clone_outcomes(x) :
          /\ fault' = o.fault
          /\ heap' = o.heap
          /\ handles' = o.handles
          /\ hashCalls' = hashCalls + (Len(o.heap) - Len(heap))
          /\ lastOp' = [NoOp EXCEPT !.op = "clone", !.x = x, !.p = get(x),
                                    !.y = IF o.fault THEN 0 ELSE Len(o.handles),
                                    !.r = IF o.fault THEN 0 ELSE o.handles[Len(o.handles)].raw]
    /\ UNCHANGED <<views, misuse>>

\* The outcomes of a == b and a != b on two views.  Through a null or freed
\* pointer the reads are undefined behaviour: a fault or either answer.
eq_outcomes(a, b) ==
    IF Readable(a) /\ Readable(b)
    THEN {[fault |-> FALSE, res |-> OpEq(a, b).res, ne |-> OpNe(a, b),
           trace |-> OpEq(a, b).trace]}
    ELSE {[fault |-> TRUE, res |-> FALSE, ne |-> FALSE, trace |-> <<"ub">>],
          [fault |-> FALSE, res |-> TRUE, ne |-> FALSE, trace |-> <<"ub">>],
          [fault |-> FALSE, res |-> FALSE, ne |-> TRUE, trace |-> <<"ub">>]}

Compare(a, b) ==
    /\ ~fault
    /\ a \in views /\ b \in views
    /\ \E o \in eq_outcomes(a, b) :
          /\ fault' = o.fault
          /\ lastOp' = [NoOp EXCEPT !.op = "eq", !.p = a, !.r = b, !.res = o.res,
                                    !.ne = o.ne, !.trace = o.trace]
    /\ UNCHANGED <<heap, handles, views, hashCalls, misuse>>

\* The outcomes of std::hash<EstrPtr>()(a): the value, or undefined behaviour
\* through a null or freed pointer (a fault, a stale or an arbitrary value).
hash_outcomes(a) ==
    IF Readable(a)
    THEN {[fault |-> FALSE, val |-> std_hash(a)]}
    ELSE {[fault |-> TRUE, val |-> <<>>], [fault |-> FALSE, val |-> to_size_t(U32(0))]}
         \cup (IF a \in Addrs THEN {[fault |-> FALSE, val |-> std_hash(a)]} ELSE {})

HashForMap(a) ==
    /\ ~fault
    /\ a \in views
    /\ \E o \in hash_outcomes(a) :
          /\ fault' = o.fault
          /\ lastOp' = [NoOp EXCEPT !.op = "hash", !.p = a, !.val = o.val]
    /\ UNCHANGED <<heap, handles, views, hashCalls, misuse>>

\* ------------------------------------------------------- specifications
Init ==
    /\ heap = <<>>
    /\ handles = <<>>
    /\ views = {}
    /\ fault = FALSE
    /\ hashCalls = 0
    /\ misuse = {}
    /\ lastOp = NoOp

\* Construction, ownership transfer and destruction.
Next ==
    \/ \E s \in OwnedInputs : EstrLiteral(s, MaxHeaders)
    \/ \E s \in OwnedInputs : EstrNew(s, MaxHeaders)
    \/ \E s \in OwnedInputs : MakeOwned(s)
    \/ \E v \in views : Claim(v)
    \/ \E x \in 1..Len(handles) : Get(x)
    \/ \E x \in 1..Len(handles) : Move(x)
    \/ \E x \in 1..Len(handles) : Clone(x)
    \/ \E x \in 1..Len(handles) : Destroy(x)

Spec == Init /\ [][Next]_vars

\* Construction on both paths and the reads of views, over longer strings.  The
\* reads are of one view or of a pair of views, so two headers are built.
NextStr ==
    \/ \E s \in StrInputs : EstrLiteral(s, 2)
    \/ \E s \in StrInputs : EstrNew(s, 2)
    \/ \E a, b \in views : Compare(a, b)
    \/ \E a \in views : HashForMap(a)

SpecStr == Init /\ [][NextStr]_vars


\* ================================================================ claims
\* The polynomial the documentation states: the sum over every position i of
\* [0, n) of bytes[i] * 127^i, modulo 2^32, bytes as unsigned values.
RECURSIVE pow127(_)
pow127(i) == IF i = 0 THEN U32(1) ELSE u32_mul(pow127(i - 1), 127)

RECURSIVE polynomial_hash(_)
polynomial_hash(bytes) ==
    IF bytes = <<>>
    THEN U32(0)
    ELSE LET n == Len(bytes)
         IN  u32_add(polynomial_hash(SubSeq(bytes, 1, n - 1)),
                     u32_mul(pow127(n - 1), U8(bytes[n])))

HasEmbeddedNul(s) == \E i \in 1..Len(s) : s[i] = 0

\* C2: every header, static or heap, caches hash == sum over all `length` bytes of
\* bytes[i] * 127^i mod 2^32, the bytes after an embedded NUL included; the empty
\* string hashes to 0.
C2_HashCoversAllBytes ==
    \A p \in Addrs : hash(p) = polynomial_hash(view(p))

\* C3: operator== on two views of readable headers, built on either path, is true
\* exactly when the strings they were built from have the same length and the same
\* byte at every position; operator!= is its negation.
C3_EqualityIsByteEquality ==
    (lastOp.op = "eq" /\ lastOp.trace # <<"ub">>)
    => /\ lastOp.res = (heap[lastOp.p].src = heap[lastOp.r].src)
       /\ lastOp.ne = ~lastOp.res

\* Two strings of one length sharing the hash and differing after an embedded NUL
\* have been compared, one from each path.
C3_Witness ==
    /\ lastOp.op = "eq"
    /\ lastOp.p \in Addrs /\ lastOp.r \in Addrs
    /\ heap[lastOp.p].st = "static" /\ heap[lastOp.r].st = "live"
    /\ heap[lastOp.p].length = heap[lastOp.r].length
    /\ heap[lastOp.p].hash = heap[lastOp.r].hash
    /\ heap[lastOp.p].src # heap[lastOp.r].src
    /\ ~lastOp.res

\* C7: views of byte-identical contents have the same cached hash and the same
\* std::hash value, whichever path built each header; a == b implies equal
\* std::hash values; and std::hash of a view is the header's cached hash.
C7_HashAgreesOnEqualContent ==
    /\ \A a, b \in Addrs :
          /\ (heap[a].src = heap[b].src) => (hash(a) = hash(b) /\ std_hash(a) = std_hash(b))
          /\ OpEq(a, b).res => std_hash(a) = std_hash(b)
    /\ (lastOp.op = "hash" /\ ~fault) =>
          (lastOp.val[1] = 0 /\ lastOp.val[2] = 0 /\ SubSeq(lastOp.val, 3, 4) = hash(lastOp.p))

\* The same content with an embedded NUL exists on both paths, and std::hash has
\* been taken of one of them.
C7_Witness ==
    /\ lastOp.op = "hash"
    /\ \E a, b \in Addrs :
          /\ heap[a].st = "static" /\ heap[b].st = "live"
          /\ heap[a].src = heap[b].src
          /\ HasEmbeddedNul(heap[a].src)
          /\ heap[a].hash # U32(0)

\* The stages of one comparison, in order, each reached only past the one before.
C10_TraceOk(a, b, trace) ==
    /\ trace \in {<<"size">>, <<"size", "hash">>, <<"size", "hash", "memcmp">>}
    /\ (Len(trace) >= 2) <=> (heap[a].length = heap[b].length)
    /\ (Len(trace) = 3) <=> (heap[a].length = heap[b].length /\ heap[a].hash = heap[b].hash)

\* C10: operator== runs the length comparison, then the hash comparison, then the
\* byte comparison; the bytes are compared only when lengths and cached hashes are
\* both equal, and no comparison computes a hash.
C10_EqualityShortCircuits ==
    [][\A a, b \in views :
          Compare(a, b) => (hashCalls' = hashCalls /\ C10_TraceOk(a, b, lastOp'.trace))]_vars

\* Two strings of one length and different hashes have been compared.
C10_Witness ==
    /\ lastOp.op = "eq"
    /\ lastOp.trace = <<"size", "hash">>
    /\ heap[lastOp.p].length = heap[lastOp.r].length
    /\ heap[lastOp.p].length > 0


\* ------------------------------------------------------ ownership claims
Handles == 1..Len(handles)

\* What the read operations return through the pointer p of the heap hp.
Reads(hp, p) ==
    [length |-> hp[p].length, bytes |-> SubSeq(hp[p].chars, 1, hp[p].length),
     hash_value |-> hp[p].hash, is_owned |-> hp[p].needs_disposing]

\* C1: destroying a handle that was the source of a move construction (its
\* pointer is null) is a no-op: it reads no header field through the null pointer,
\* frees nothing and raises no fault.
C1_MovedFromDestroyIsNoOp ==
    [][\A x \in Handles :
          (Destroy(x) /\ handles[x].moved)
          => (~fault' /\ ~lastOp'.nullDeref /\ heap' = heap)]_vars

\* Deletions counted per header against the destroyed handles that held it.
C4_Releases ==
    /\ \A p \in Addrs : ~heap[p].needs_disposing => (heap[p].frees = 0 /\ heap[p].st = "static")
    /\ misuse = {} =>
          \A p \in Addrs :
             heap[p].needs_disposing =>
                /\ heap[p].frees = Cardinality({x \in Handles : handles[x].st = "dead"
                                                                /\ handles[x].raw = p})
                /\ heap[p].frees <= 1
                /\ (heap[p].st = "freed") <=> (heap[p].frees = 1)

\* A construction step leaves every existing header as it was.
C4_ConstructionFreesNothing ==
    ((\E s \in OwnedInputs : MakeOwned(s) \/ EstrNew(s, MaxHeaders)) \/ (\E v \in views : Claim(v)))
    => \A p \in Addrs : heap'[p] = heap[p]

\* C4: with the caller's contract kept, every heap header has been deleted once
\* for each destroyed handle that held it, and never twice; a static header is
\* never deleted, whoever claimed it; and estr_new, estr_unique_new and claim
\* delete nothing.
C4_SingleRelease == [](C4_Releases) /\ [][C4_ConstructionFreesNothing]_vars

\* A claimed static header and a heap header of estr_unique_new, each with its
\* handle destroyed.
C4_Witness ==
    /\ misuse = {} /\ ~fault
    /\ \E x, y \in Handles :
          /\ handles[x].st = "dead" /\ handles[y].st = "dead"
          /\ handles[x].raw \in Addrs /\ handles[y].raw \in Addrs
          /\ heap[handles[x].raw].st = "static"
          /\ heap[handles[y].raw].st = "freed"

\* At most one live handle per heap header, and no live handle on a deleted header.
SingleOwner ==
    /\ \A p \in Addrs : heap[p].needs_disposing => Cardinality(LiveOwners(p)) <= 1
    /\ \A x \in Handles : (handles[x].st = "live" /\ handles[x].raw # 0) => Readable(handles[x].raw)

\* C5 as stated: provided claim is only applied to views whose header has no live
\* owner, SingleOwner holds in every reachable state.
C5_SingleOwnerAsStated == ("double" \notin misuse) => SingleOwner

\* C5 as amended: provided claim is only applied to views whose header has no
\* live owner and has not been deallocated, SingleOwner holds in every
\* reachable state.
C5_SingleOwner == (misuse = {}) => SingleOwner

\* A view of an unowned heap header has just been claimed, within the contract.
C5_Witness ==
    /\ lastOp.op = "claim" /\ misuse = {}
    /\ lastOp.p \in Addrs
    /\ heap[lastOp.p].needs_disposing
    /\ LiveOwners(lastOp.p) = {lastOp.y}
    /\ \E x \in Handles : x # lastOp.y /\ handles[x].st = "live" /\ handles[x].raw \in Addrs

\* What a clone() step does to the heap and the handles.
C6_CloneStep ==
    \A x \in Handles :
       (Clone(x) /\ Readable(get(x)))
       => LET p == get(x)
              r == handles'[Len(handles')].raw
          IN  /\ ~fault'
              /\ Len(handles') = Len(handles) + 1
              /\ r \notin Addrs /\ r \in 1..Len(heap') /\ r # p
              /\ heap'[r].st = "live" /\ heap'[r].frees = 0
              /\ heap'[r].needs_disposing
              /\ heap'[r].length = heap[p].length
              /\ heap'[r].chars = heap[p].chars
              /\ heap'[r].hash = heap[p].hash
              /\ \A k \in Addrs : heap'[k] = heap[k]

\* A destructor step changes no header but the one its handle points to.
C6_DestroyStep ==
    \A x \in Handles :
       Destroy(x) => \A k \in Addrs : k # get(x) => heap'[k] = heap[k]

\* C6: clone() of a handle on a readable header returns a handle on a freshly
\* allocated header, at another address, with needs_disposing set and the length,
\* bytes and hash of the original, which it leaves as it was; and destroying a
\* handle changes no header but the one it points to.
C6_CloneIndependent == [][C6_CloneStep /\ C6_DestroyStep]_vars

\* A claimed static header holding an embedded NUL has just been cloned.
C6_Witness ==
    /\ lastOp.op = "clone" /\ ~fault
    /\ lastOp.p \in Addrs /\ lastOp.r \in Addrs
    /\ heap[lastOp.p].st = "static"
    /\ HasEmbeddedNul(heap[lastOp.p].src)
    /\ heap[lastOp.r].st = "live"

\* What a move construction step does to the handles and the heap.
C8_MoveStep ==
    \A x \in Handles :
       Move(x)
       => LET y == Len(handles')
          IN  /\ y = Len(handles) + 1
              /\ handles'[y].raw = handles[x].raw
              /\ handles'[y].st = "live"
              /\ handles'[x].raw = 0
              /\ heap' = heap
              /\ \A z \in Handles \ {x} : handles'[z] = handles[z]
              /\ Readable(handles[x].raw)
                    => Reads(heap', handles'[y].raw) = Reads(heap, handles[x].raw)

\* C8: move construction leaves the new handle with the pointer the source held
\* and the source with nullptr, allocates and frees nothing, changes no header;
\* what length, bytes, hash_value and is_owned read through the new handle is
\* what they read through the source before.
C8_MoveTransfers == [][C8_MoveStep]_vars

\* A handle on a heap header has just been moved from.
C8_Witness ==
    /\ lastOp.op = "move"
    /\ lastOp.p \in Addrs
    /\ heap[lastOp.p].needs_disposing
    /\ handles[lastOp.y].raw = lastOp.p
    /\ handles[lastOp.x].raw = 0

\* The header at p is the newest allocation and holds the string s.
C9_Built(p, s) ==
    /\ p = Len(heap)
    /\ heap[p].st = "live" /\ heap[p].frees = 0
    /\ heap[p].needs_disposing
    /\ heap[p].length = Len(s)
    /\ Len(s) <= MaxLength
    /\ \A i \in 1..Len(s) : heap[p].chars[i] = s[i]
    /\ heap[p].chars[heap[p].length + 1] = 0
    /\ heap[p].cap >= OffsetofChars + heap[p].length + 1
    /\ heap[p].cap >= SizeofRaw

\* C9: estr_new(s) and estr_unique_new(s) build, at a fresh address, a header with
\* needs_disposing set, length |s|, the bytes of s (embedded NULs kept) and a NUL
\* at bytes[length], in a buffer that holds them.
C9_HeapHeaderHoldsInput ==
    (lastOp.op \in {"estr_new", "estr_unique_new"}) => C9_Built(lastOp.p, lastOp.arg)

\* estr_unique_new has just built a header from a string with an embedded NUL.
C9_Witness ==
    /\ lastOp.op = "estr_unique_new"
    /\ HasEmbeddedNul(lastOp.arg)
    /\ handles[lastOp.y].raw = lastOp.p

====
